---- MODULE Spec2Model ----
(***************************************************************************)
(* Model of src/main.py: an aiogram bot that registers a chat by phone,    *)
(* shows a paginated project picker, and holds the client functions of the *)
(* Worksection task service and the local store.                           *)
(*                                                                         *)
(* Strings are modelled as sequences of tokens; a token stands for a fixed *)
(* block of characters, so concatenation of strings is concatenation of    *)
(* sequences.                                                              *)
(***************************************************************************)
EXTENDS Integers, Sequences, FiniteSets, Bags, TLC

(* ------------------------------ bounds --------------------------------- *)
\* rows of the projects table in the handler specification
MaxProjects == 5
\* handler invocations that may be suspended at an await at the same time
MaxInFlight == 2
\* longest project list given to build_projects_keyboard in SpecPage
MaxListLen == 9
\* longest title / text (in tokens) given to the signing code in SpecSig
MaxFieldLen == 2
\* rows the tasks table may hold in SpecOps
MaxTasks == 2

(* --------------------------- program constants ------------------------- *)
PAGE_SIZE == 4

\* TelegramChatId is nullable; 0 stands for NULL
Null == 0
Chats == {1, 2}

(* ----------------------------- phone numbers --------------------------- *)
\* A phone number string: an optional "+", then ndigits digits; clean is
\* FALSE when the string holds any other character.  num tells two phone
\* strings apart.
Phone1 == [num |-> 1, plus |-> TRUE, ndigits |-> 12, clean |-> TRUE]
Phone2 == [num |-> 2, plus |-> FALSE, ndigits |-> 10, clean |-> TRUE]
PhoneShort == [num |-> 3, plus |-> TRUE, ndigits |-> 9, clean |-> TRUE]
PhoneLong == [num |-> 4, plus |-> FALSE, ndigits |-> 16, clean |-> TRUE]
PhoneAlpha == [num |-> 5, plus |-> TRUE, ndigits |-> 11, clean |-> FALSE]
PhoneInputs == {Phone1, Phone2, PhoneShort, PhoneLong, PhoneAlpha}

\* re.compile(r'^\+?\d{10,15}$').match(phone)
is_valid_phone(phone) ==
  /\ phone.clean
  /\ phone.ndigits >= 10
  /\ phone.ndigits <= 15

(* ------------------------------ pagination ----------------------------- *)
\* Python's normalisation of a slice bound i for a list of length n
PyBound(i, n) ==
  IF i < 0 THEN (IF i + n < 0 THEN 0 ELSE i + n)
  ELSE (IF i > n THEN n ELSE i)

\* Python's s[a:b] (0-based, b exclusive) on a sequence
PySlice(s, a, b) ==
  LET lo == PyBound(a, Len(s))
      hi == PyBound(b, Len(s))
  IN IF lo < hi THEN SubSeq(s, lo + 1, hi) ELSE << >>

NoMarkup == [buttons |-> << >>, nav |-> << >>]

\* build_projects_keyboard with the page < total_pages - 1 test off by one
build_projects_keyboard_next_off_by_one(prjs, page) ==
  LET total_projects == Len(prjs)
      total_pages == (total_projects + PAGE_SIZE - 1) \div PAGE_SIZE
      start_index == page * PAGE_SIZE
      end_index == start_index + PAGE_SIZE
      page_projects == PySlice(prjs, start_index, end_index)
      prev == IF page > 0
              THEN << [label |-> "prev", page |-> page - 1] >> ELSE << >>
      next == IF page < total_pages
              THEN << [label |-> "next", page |-> page + 1] >> ELSE << >>
  IN [buttons |-> [i \in 1..Len(page_projects) |-> page_projects[i].ProjectId],
      nav |-> IF total_pages > 1 THEN prev \o next ELSE << >>]

\* build_projects_keyboard(projects, page): one select_project_<id> button per
\* project of the slice, then a row of page_<n> buttons
build_projects_keyboard(prjs, page) ==
  LET total_projects == Len(prjs)
      total_pages == (total_projects + PAGE_SIZE - 1) \div PAGE_SIZE
      start_index == page * PAGE_SIZE
      end_index == start_index + PAGE_SIZE
      page_projects == PySlice(prjs, start_index, end_index)
      prev == IF page > 0
              THEN << [label |-> "prev", page |-> page - 1] >> ELSE << >>
      next == IF page < total_pages - 1
              THEN << [label |-> "next", page |-> page + 1] >> ELSE << >>
  IN [buttons |-> [i \in 1..Len(page_projects) |-> page_projects[i].ProjectId],
      nav |-> IF total_pages > 1 THEN prev \o next ELSE << >>]

(* --------------------------- request signing --------------------------- *)
\* API_KEY, read from the environment
API_KEY == << "K" >>

\* the decimal digit d as a character
DigitChar(d) ==
  << "0", "1", "2", "3", "4", "5", "6", "7", "8", "9" >>[d + 1]

\* str(n) for 0 <= n <= 999
PyStr(n) ==
  IF n < 10 THEN << DigitChar(n) >>
  ELSE IF n < 100 THEN << DigitChar(n \div 10), DigitChar(n % 10) >>
  ELSE << DigitChar(n \div 100), DigitChar((n \div 10) % 10),
          DigitChar(n % 10) >>

\* hashlib.md5(s.encode()).hexdigest(): taken to be collision-free
Md5Hex(s) == [md5 |-> s]

\* the query string and the hash of create_task_with_file_async
PostTaskQuery(project_id, task_name, description) ==
  << "action=", "post_task" >> \o << "&id_project=" >> \o PyStr(project_id)
    \o << "&title=" >> \o task_name \o << "&text=" >> \o description

PostTaskSigned(project_id, task_name, description) ==
  LET query_params == PostTaskQuery(project_id, task_name, description)
  IN [query |-> query_params, hash |-> Md5Hex(query_params \o API_KEY)]

\* the query string and the hash of get_project_manager_name
GetProjectQuery(project_id) ==
  << "action=", "get_project" >> \o << "&id_project=" >> \o PyStr(project_id)

GetProjectSigned(project_id) ==
  LET query_params == GetProjectQuery(project_id)
  IN [query |-> query_params, hash |-> Md5Hex(query_params \o API_KEY)]

(* ------------------------------- state --------------------------------- *)
VARIABLES
  users,       \* the users table: rows [UserId, UserPhoneNumber, TelegramChatId]
  projects,    \* the projects table, in row order: [ProjectId, ProjectUserId]
  inv,         \* the bag of handler invocations suspended at an await
  out,         \* the bot's last call that shows something in a chat
  picker,      \* per chat, the inline keyboard of its latest picker message
  pgList,      \* SpecPage: the project list given to build_projects_keyboard
  pgPage,      \* SpecPage: the page given to build_projects_keyboard
  pgMarkup,    \* SpecPage: << >>, then << the keyboard it returned >>
  sigArgs,     \* SpecSig: two argument tuples of create_task_with_file_async
  sigOut,      \* SpecSig: << >>, then the signed requests built from them
  tasks,       \* the tasks table, in row order
  opCall,      \* SpecOps: << >>, then the last call of an operation: its
               \* arguments, what the store or the service did, its outcome
  delivered,   \* SpecDispatch: the message the dispatcher is given
  handledBy    \* SpecDispatch: << >>, then << the handler it was given to >>

botVars == << users, projects, inv, out, picker >>
pgVars == << pgList, pgPage, pgMarkup >>
sigVars == << sigArgs, sigOut >>
opsVars == << tasks, opCall >>
dsVars == << delivered, handledBy >>
vars == << users, projects, inv, out, picker,
           pgList, pgPage, pgMarkup, sigArgs, sigOut,
           tasks, opCall, delivered, handledBy >>

NoPhone == [num |-> 0, plus |-> FALSE, ndigits |-> 0, clean |-> FALSE]
NoUser == [UserId |-> 0, UserPhoneNumber |-> NoPhone, TelegramChatId |-> Null]

\* an invocation of handler for an update of chat c, suspended at pc
Invocation(handler, c, pc, user_phone, user) ==
  [handler |-> handler, chat |-> c, pc |-> pc, phone |-> user_phone,
   user |-> user]

\* message.answer / bot.send_message / bot.edit_message_* /
\* bot.answer_callback_query(text=..., show_alert=True) to chat c: what is
\* shown (kind; the kinds of alerts start with alert_), the inline keyboard,
\* the project named, and the length of the text message answered
Shown(c, kind, markup, pid, len) ==
  [chat |-> c, kind |-> kind, markup |-> markup, pid |-> pid, len |-> len]
Msg(c, kind) == Shown(c, kind, NoMarkup, 0, 0)

(* ------------------------- local persistence --------------------------- *)
\* result.scalars().first() of a query that returned the rows in set rows
First(rows) == IF rows = {} THEN NoUser ELSE CHOOSE u \in rows : TRUE

\* select(User).where(User.TelegramChatId == chat_id)
UserByChatId(chat_id) == First({u \in users : u.TelegramChatId = chat_id})

\* select(User).where(User.UserPhoneNumber == user_phone)
UserByPhone(user_phone) == First({u \in users : u.UserPhoneNumber = user_phone})

\* get_projects_by_phone with the where clause left out of the join
get_projects_by_phone_any_owner(user_phone) ==
  LET Owned(p) == \E u \in users : u.UserId = p.ProjectUserId
  IN SelectSeq(projects, Owned)

\* select(Project).join(User).where(User.UserPhoneNumber == user_phone)
get_projects_by_phone(user_phone) ==
  LET Owned(p) == \E u \in users : /\ u.UserId = p.ProjectUserId
                                   /\ u.UserPhoneNumber = user_phone
  IN SelectSeq(projects, Owned)

\* the project query with its where clause left out
ProjectById_any_row(pid) ==
  {projects[i] : i \in 1..Len(projects)}

\* select(Project).where(Project.ProjectId == pid), as a set of rows
ProjectById(pid) ==
  {projects[i] : i \in {j \in 1..Len(projects) : projects[j].ProjectId = pid}}

\* the primary key the store gives a new users row
NextUserId ==
  IF users = {} THEN 1
  ELSE 1 + (CHOOSE m \in {u.UserId : u \in users} :
              \A u \in users : u.UserId <= m)

\* whether the store accepts the rows: UserPhoneNumber and TelegramChatId are
\* unique (NULLs apart)
UsersUnique(rows) ==
  \A u, v \in rows :
    u.UserId # v.UserId =>
      /\ u.UserPhoneNumber # v.UserPhoneNumber
      /\ (u.TelegramChatId = Null \/ u.TelegramChatId # v.TelegramChatId)

\* the users table add_or_update_user's session.commit() writes: an UPDATE of
\* the row it loaded when the chat id it assigned differs from the loaded
\* one, no statement when it is the same, an INSERT when it loaded no row
UsersAfterUpsert(loaded, chat_id, user_phone) ==
  IF loaded # NoUser
  THEN IF loaded.TelegramChatId = chat_id
       THEN users
       ELSE {IF u.UserId = loaded.UserId
             THEN [u EXCEPT !.TelegramChatId = chat_id] ELSE u : u \in users}
  ELSE users \cup {[UserId |-> NextUserId, UserPhoneNumber |-> user_phone,
                    TelegramChatId |-> chat_id]}

(* ------------------------------ inputs --------------------------------- *)
\* a text message: its length in characters, and whether it is a greeting
\* (message.text.lower() == "привіт", six characters)
TextInputs ==
  {[len |-> 6, greeting |-> TRUE]}
    \cup {[len |-> n, greeting |-> FALSE] : n \in {1, 45, 46, 150, 151}}

\* The callback data a chat can send is that of the buttons of the keyboard
\* it is shown: select_project_<id> for each project button, page_<n> for
\* each navigation button.  int() of what follows the prefix cannot fail.
ButtonData(markup) ==
  {[prefix |-> "select_project_", n |-> markup.buttons[i]] :
      i \in 1..Len(markup.buttons)}
    \cup {[prefix |-> "page_", n |-> markup.nav[i].page] :
            i \in 1..Len(markup.nav)}

\* the invocations in progress
Running == BagToSet(inv)
CanStart == BagCardinality(inv) < MaxInFlight
Start(e) == inv' = inv (+) SetToBag({e})
Finish(e) == inv' = inv (-) SetToBag({e})
Continue(e, f) == inv' = (inv (-) SetToBag({e})) (+) SetToBag({f})

(* ------------------------------ send_welcome --------------------------- *)
\* @dp.message_handler(commands=['start'])
send_welcome(c) ==
  /\ out' = Msg(c, "welcome")
  /\ UNCHANGED << users, projects, inv, picker, pgVars, sigVars, opsVars, dsVars >>

(* ---------------------------- handle_phone_number ---------------------- *)
\* @dp.message_handler(content_types=["contact"]) up to add_or_update_user's
\* select by phone number (the update is taken to arrive when that query
\* runs); a store error there is rolled back and returns False, and the
\* handler answers that saving failed
handle_phone_number(c, user_phone) ==
  /\ IF ~is_valid_phone(user_phone)
     THEN /\ out' = Msg(c, "bad_phone")
          /\ UNCHANGED inv
     ELSE \E ok \in BOOLEAN :
            IF ok
            THEN /\ CanStart
                 /\ Start(Invocation("handle_phone_number", c, "commit",
                                     user_phone, UserByPhone(user_phone)))
                 /\ UNCHANGED out
            ELSE /\ out' = Msg(c, "save_failed")
                 /\ UNCHANGED inv
  /\ UNCHANGED << users, projects, picker, pgVars, sigVars, opsVars, dsVars >>

\* add_or_update_user: session.commit(); it fails on a store error or when the
\* written rows break a unique constraint, and is then rolled back
add_or_update_user_commit(e) ==
  /\ e.handler = "handle_phone_number"
  /\ e.pc = "commit"
  /\ \E ok \in BOOLEAN :
       LET written == UsersAfterUpsert(e.user, e.chat, e.phone)
       IN IF ok /\ UsersUnique(written)
          THEN /\ users' = written
               /\ Continue(e, [e EXCEPT !.pc = "load_projects", !.user = NoUser])
               /\ UNCHANGED out
          ELSE /\ UNCHANGED users
               /\ out' = Msg(e.chat, "save_failed")
               /\ Finish(e)
  /\ UNCHANGED << projects, picker, pgVars, sigVars, opsVars, dsVars >>

\* get_projects_by_phone (an empty list on a store error), then the answer:
\* no projects, or a new message with page 0 of the picker
handle_phone_number_projects(e) ==
  /\ e.handler = "handle_phone_number"
  /\ e.pc = "load_projects"
  /\ \E ok \in BOOLEAN :
       LET prjs == IF ok THEN get_projects_by_phone(e.phone) ELSE << >>
           markup == build_projects_keyboard(prjs, 0)
       IN IF prjs = << >>
          THEN /\ out' = Msg(e.chat, "no_projects")
               /\ UNCHANGED picker
          ELSE /\ out' = Shown(e.chat, "choose_project", markup, 0, 0)
               /\ picker' = [picker EXCEPT ![e.chat] = markup]
  /\ Finish(e)
  /\ UNCHANGED << users, projects, pgVars, sigVars, opsVars, dsVars >>

(* ------------------------------- handle_text --------------------------- *)
\* @dp.message_handler(content_types=["text"]): every text message that is
\* not the /start command is answered with the greeting or with one of the
\* answers of the exchange-rate lookup
handle_text(c, text) ==
  /\ out' = Shown(c, IF text.greeting THEN "greeting" ELSE "currency",
                  NoMarkup, 0, text.len)
  /\ UNCHANGED << users, projects, inv, picker, pgVars, sigVars, opsVars, dsVars >>

(* ----------------------------- process_callback ------------------------ *)
\* @dp.callback_query_handler(...), whole: after get_user_by_chat_id (None on
\* a store error) the handler reads only what no handler writes (the
\* projects table and the phone number of the user it loaded), so its later
\* awaits are folded into this step.
\* select_project_<pid>: the project query (a store error reaches the except
\* Exception), then the message loses its keyboard and the task name is
\* asked for.  page_<n>: the projects of the user's phone (an empty list on
\* a store error), and the keyboard of page n replaces the message's.
process_callback(c, data) ==
  /\ data \in ButtonData(picker[c])
  /\ \E ok1, ok2 \in BOOLEAN :
       LET user == IF ok1 THEN UserByChatId(c) ELSE NoUser
           prjs == IF ok2 THEN get_projects_by_phone(user.UserPhoneNumber)
                   ELSE << >>
           markup == build_projects_keyboard(prjs, data.n)
       IN IF user = NoUser
          THEN /\ out' = Msg(c, "alert_user_not_found")
               /\ UNCHANGED picker
          ELSE IF data.prefix = "select_project_"
          THEN IF ~ok2
               THEN /\ out' = Msg(c, "alert_unknown_error")
                    /\ UNCHANGED picker
               ELSE IF ProjectById(data.n) = {}
               THEN /\ out' = Shown(c, "alert_project_not_found", NoMarkup,
                                 data.n, 0)
                    /\ UNCHANGED picker
               ELSE /\ out' = Shown(c, "ask_task_name", NoMarkup, data.n, 0)
                    /\ picker' = [picker EXCEPT ![c] = NoMarkup]
          ELSE /\ out' = Shown(c, "choose_project", markup, 0, 0)
               /\ picker' = [picker EXCEPT ![c] = markup]
  /\ UNCHANGED << users, projects, inv, pgVars, sigVars, opsVars, dsVars >>

(* ------------------------- the projects table ------------------------- *)
\* The projects table is written by a provisioning process outside this
\* program, while the bot runs: here it deletes the last row of a full table.
delete_project ==
  /\ Len(projects) = MaxProjects
  /\ projects' = SubSeq(projects, 1, Len(projects) - 1)
  /\ UNCHANGED << users, inv, out, picker, pgVars, sigVars, opsVars, dsVars >>

(* ---------------------------- specification ---------------------------- *)
User1 == [UserId |-> 1, UserPhoneNumber |-> Phone1, TelegramChatId |-> Null]
User2 == [UserId |-> 2, UserPhoneNumber |-> Phone2, TelegramChatId |-> Null]

\* the projects table with n1 projects of user 1, then n2 projects of user 2
ProjectTable(n1, n2) ==
  [i \in 1..(n1 + n2) |->
     [ProjectId |-> i, ProjectUserId |-> IF i <= n1 THEN 1 ELSE 2]]

NoOutput == Msg(0, "none")

PgIdle == /\ pgList = << >>
          /\ pgPage = 0
          /\ pgMarkup = << >>
SigIdle == /\ sigArgs = << >>
           /\ sigOut = << >>
OpsIdle == /\ tasks = << >>
           /\ opCall = << >>
DispatchIdle == /\ delivered = << >>
                /\ handledBy = << >>

\* The bot starts with the users and projects an external process has
\* provisioned: user 1 with no project or with all but n2 of them, and user
\* 2 when it owns a project (otherwise the second phone number is new).
Init ==
  /\ \E n2 \in 0..1 :
     \E n1 \in {0, MaxProjects - n2} :
       /\ projects = ProjectTable(n1, n2)
       /\ users = IF n2 > 0 THEN {User1, User2} ELSE {User1}
  /\ inv = EmptyBag
  /\ out = NoOutput
  /\ picker = [c \in Chats |-> NoMarkup]
  /\ PgIdle
  /\ SigIdle
  /\ OpsIdle
  /\ DispatchIdle

Next ==
  \/ \E c \in Chats : send_welcome(c)
  \/ \E c \in Chats, p \in PhoneInputs : handle_phone_number(c, p)
  \/ \E e \in Running : add_or_update_user_commit(e)
  \/ \E e \in Running : handle_phone_number_projects(e)
  \/ \E c \in Chats, t \in TextInputs : handle_text(c, t)
  \/ \E c \in Chats : \E d \in ButtonData(picker[c]) : process_callback(c, d)
  \/ delete_project

Spec == Init /\ [][Next]_vars

(* ----------------- SpecPage: build_projects_keyboard alone ------------- *)
\* the list of n projects whose ids start after base
ProjectList(base, n) ==
  [i \in 1..n |-> [ProjectId |-> base + i, ProjectUserId |-> 1]]

BotIdle == /\ users = {}
           /\ projects = << >>
           /\ inv = EmptyBag
           /\ out = NoOutput
           /\ picker = [c \in Chats |-> NoMarkup]

\* a list of projects, and the page of a page_<n> button (never negative)
\* that was rendered for it or for an earlier, longer list
InitPage ==
  /\ \E base \in {0, 10}, n \in 0..MaxListLen : pgList = ProjectList(base, n)
  /\ pgPage \in 0..(MaxListLen \div PAGE_SIZE + 1)
  /\ pgMarkup = << >>
  /\ BotIdle
  /\ SigIdle
  /\ OpsIdle
  /\ DispatchIdle

\* markup = build_projects_keyboard(projects, page)
RenderPage ==
  /\ pgMarkup = << >>
  /\ pgMarkup' = << build_projects_keyboard(pgList, pgPage) >>
  /\ UNCHANGED << pgList, pgPage, botVars, sigVars, opsVars, dsVars >>

NextPage == RenderPage

SpecPage == InitPage /\ [][NextPage]_vars

(* --------------- SpecSig: the signing of create_task alone ------------- *)
\* the characters a title or a text is made of: a letter, and the block of
\* characters "&text="
FieldChars == {"a", "&text="}

\* the strings of at most n of them
RECURSIVE FieldStrings(_)
FieldStrings(n) ==
  IF n = 0 THEN {<< >>}
  ELSE FieldStrings(n - 1)
         \cup {Append(f, ch) : f \in FieldStrings(n - 1), ch \in FieldChars}

\* a project id of one or of two digits, a non-empty title and text
SigInputs ==
  [project_id : {1, 12}, task_name : FieldStrings(MaxFieldLen) \ {<< >>},
   description : FieldStrings(MaxFieldLen) \ {<< >>}]

InitSig ==
  /\ sigArgs \in SigInputs \X SigInputs
  /\ sigOut = << >>
  /\ BotIdle
  /\ PgIdle
  /\ OpsIdle
  /\ DispatchIdle

\* query_params, hash_hex of create_task_with_file_async for both tuples
SignRequests ==
  /\ sigOut = << >>
  /\ sigOut' = [i \in 1..2 |->
                  PostTaskSigned(sigArgs[i].project_id, sigArgs[i].task_name,
                                 sigArgs[i].description)]
  /\ UNCHANGED << sigArgs, botVars, pgVars, opsVars, dsVars >>

NextSig == SignRequests

SpecSig == InitSig /\ [][NextSig]_vars

(* ------------- SpecOps: the service and store operations alone --------- *)
\* The answer of the Worksection service to one request: a transport error
\* (aiohttp.ClientError), or an HTTP response with its status, whether it is
\* declared application/json, and its body.  A body is not JSON at all
\* (malformed), a JSON array, or a JSON object with none or some of the
\* fields status, error and user_to; an absent field is << >>, a present one
\* << its value >>.  user_to is null, or an object with or without a name.
NoBody == [form |-> "none", status |-> << >>, error |-> << >>,
           user_to |-> << >>]
JsonObjects ==
  [form : {"object"},
   status : {<< >>, << "ok" >>, << "error" >>},
   error : {<< >>, << << "quota" >> >>},
   user_to : {<< >>, << [null |-> TRUE, name |-> << >>] >>,
              << [null |-> FALSE, name |-> << >>] >>,
              << [null |-> FALSE, name |-> << << "Ann" >> >>] >>}]
Bodies ==
  {[NoBody EXCEPT !.form = "malformed"], [NoBody EXCEPT !.form = "array"]}
    \cup JsonObjects
Responses ==
  {[transport |-> "client_error", status |-> 0, json_type |-> FALSE,
    body |-> NoBody]}
    \cup [transport : {"ok"}, status : {200, 404, 500}, json_type : BOOLEAN,
          body : Bodies]

\* how a call ends: it returns a value, or an exception leaves the function
Return(value) == [kind |-> "return", value |-> value]
Raise(exc) == [kind |-> "raise", value |-> << exc >>]

\* await resp.json(): the parsed body, or the exception it raises.
\* ContentTypeError is an aiohttp.ClientError, json.JSONDecodeError a
\* ValueError.
RespJson(resp) ==
  IF ~resp.json_type THEN Raise("ContentTypeError")
  ELSE IF resp.body.form = "malformed" THEN Raise("JSONDecodeError")
  ELSE Return(resp.body)

\* the texts create_task_with_file_async returns:
\* "Задача успішно створена у Worksection.", "Помилка API Worksection: ",
\* "Невідома помилка API.", "HTTP помилка Worksection: ",
\* "Сталася помилка при відправленні задачі: "
TaskCreated == << "task created in Worksection." >>
ApiErrorPrefix == << "Worksection API error: " >>
UnknownApiError == << "unknown API error." >>
HttpErrorPrefix == << "Worksection HTTP error: " >>
SendErrorPrefix == << "error while sending the task: " >>

\* create_task_with_file_async with the resp.status == 200 test left out
create_task_with_file_async_any_status(resp) ==
  IF resp.transport = "client_error"
  THEN Return(SendErrorPrefix \o << "ClientError" >>)
  ELSE LET data == RespJson(resp)
       IN IF data.kind = "raise"
          THEN IF data.value = << "ContentTypeError" >>
               THEN Return(SendErrorPrefix \o data.value)
               ELSE data
          ELSE IF data.value.form # "object"
          THEN Raise("AttributeError")
          ELSE IF data.value.status = << "ok" >>
          THEN Return(TaskCreated)
          ELSE Return(ApiErrorPrefix
                        \o (IF data.value.error = << >>
                            THEN UnknownApiError
                            ELSE data.value.error[1]))

\* create_task_with_file_async from session.post on: only aiohttp.ClientError
\* is caught; data.get on a body that is no object raises AttributeError
create_task_with_file_async(resp) ==
  IF resp.transport = "client_error"
  THEN Return(SendErrorPrefix \o << "ClientError" >>)
  ELSE IF resp.status = 200
  THEN LET data == RespJson(resp)
       IN IF data.kind = "raise"
          THEN IF data.value = << "ContentTypeError" >>
               THEN Return(SendErrorPrefix \o data.value)
               ELSE data
          ELSE IF data.value.form # "object"
          THEN Raise("AttributeError")
          ELSE IF data.value.status = << "ok" >>
          THEN Return(TaskCreated)
          ELSE Return(ApiErrorPrefix
                        \o (IF data.value.error = << >>
                            THEN UnknownApiError
                            ELSE data.value.error[1]))
  ELSE Return(HttpErrorPrefix \o PyStr(resp.status))

\* the texts get_project_manager_name returns besides the manager's name:
\* "Помилка HTTP: ", "Не вдалося знайти інформацію про керівника проекту.",
\* "Сталася помилка при отриманні керівника проекту: ",
\* "Сталася помилка при обробці відповіді: некоректний JSON.",
\* "Несподівана помилка: "
ManagerHttpErrorPrefix == << "HTTP error: " >>
ManagerNotFound == << "no information about the project manager." >>
ManagerErrorPrefix == << "error while getting the project manager: " >>
ManagerBadJson == << "error while reading the answer: bad JSON." >>
UnexpectedErrorPrefix == << "unexpected error: " >>

\* get_project_manager_name from session.get on: every exception is caught
\* and turned into a text; "name" in data["user_to"] raises TypeError when
\* user_to is null
get_project_manager_name(resp) ==
  IF resp.transport = "client_error"
  THEN Return(ManagerErrorPrefix \o << "ClientError" >>)
  ELSE IF resp.status # 200
  THEN Return(ManagerHttpErrorPrefix \o PyStr(resp.status))
  ELSE LET data == RespJson(resp)
       IN IF data.kind = "raise"
          THEN IF data.value = << "ContentTypeError" >>
               THEN Return(ManagerErrorPrefix \o data.value)
               ELSE Return(ManagerBadJson)
          ELSE IF data.value.form # "object" \/ data.value.user_to = << >>
          THEN Return(ManagerNotFound)
          ELSE IF data.value.user_to[1].null
          THEN Return(UnexpectedErrorPrefix \o << "TypeError" >>)
          ELSE IF data.value.user_to[1].name = << >>
          THEN Return(ManagerNotFound)
          ELSE Return(data.value.user_to[1].name[1])

\* the texts save_task_to_db returns: "Задача успішно збережена у базу
\* даних.", "Помилка збереження задачі у базу даних: "
TaskSaved == << "task saved to the database." >>
SaveErrorPrefix == << "error while saving the task: " >>

\* a table after session.commit() of the rows written, with a partial write
\* left behind when the commit fails
AfterCommit_no_rollback(before, written, stored) == written

\* a table after session.commit() of the rows written: written when the
\* store accepts them, and as before, after session.rollback(), when not
AfterCommit(before, written, stored) == IF stored THEN written ELSE before

\* the tasks table with the row of Task(TaskName=..., TaskLeader=...,
\* TaskProjectId=...) added; the store numbers the rows
TasksAfterSave(task_name, task_leader, project_id) ==
  Append(tasks, [TaskId |-> Len(tasks) + 1, TaskName |-> task_name,
                 TaskLeader |-> task_leader, TaskProjectId |-> project_id])

\* whether the store accepts the tasks row: TaskName is not NULL and
\* TaskProjectId names a row of projects
TaskAccepted(task_name, project_id) ==
  /\ task_name # << >>
  /\ ProjectById(project_id) # {}

\* the arguments of save_task_to_db the model tries: a name or None, a
\* leader or None, a project that exists or not
TaskInputs ==
  [task_name : {<< >>, << "t" >>}, task_leader : {<< >>, << "Ann" >>},
   project_id : {1, 2}]

\* a call of create_task_with_file_async that meets the answer resp
CallPostTask(resp) ==
  /\ opCall' = << [op |-> "post_task", resp |-> resp,
                   ret |-> create_task_with_file_async(resp)] >>
  /\ UNCHANGED << tasks, botVars, pgVars, sigVars, dsVars >>

\* a call of get_project_manager_name that meets the answer resp
CallGetProject(resp) ==
  /\ opCall' = << [op |-> "get_project", resp |-> resp,
                   ret |-> get_project_manager_name(resp)] >>
  /\ UNCHANGED << tasks, botVars, pgVars, sigVars, dsVars >>

\* a call of save_task_to_db; up says whether the store is reachable
CallSaveTask(args, up) ==
  LET stored == up /\ TaskAccepted(args.task_name, args.project_id)
      written == TasksAfterSave(args.task_name, args.task_leader,
                                args.project_id)
  IN /\ Len(tasks) < MaxTasks
     /\ tasks' = AfterCommit(tasks, written, stored)
     /\ opCall' = << [op |-> "save_task_to_db", args |-> args,
                      stored |-> stored,
                      ret |-> Return(IF stored THEN TaskSaved
                                     ELSE SaveErrorPrefix
                                            \o << "SQLAlchemyError" >>)] >>
     /\ UNCHANGED << botVars, pgVars, sigVars, dsVars >>

\* a call of add_or_update_user that no other call overlaps; up says whether
\* the store is reachable
CallAddOrUpdateUser(chat_id, user_phone, up) ==
  LET written == UsersAfterUpsert(UserByPhone(user_phone), chat_id, user_phone)
      stored == up /\ UsersUnique(written)
  IN /\ users' = AfterCommit(users, written, stored)
     /\ opCall' = << [op |-> "add_or_update_user",
                      args |-> [chat_id |-> chat_id, user_phone |-> user_phone],
                      stored |-> stored, ret |-> Return(stored)] >>
     /\ UNCHANGED << projects, inv, out, picker, tasks,
                     pgVars, sigVars, dsVars >>

InitOps ==
  /\ users = {User1}
  /\ projects = ProjectTable(1, 0)
  /\ inv = EmptyBag
  /\ out = NoOutput
  /\ picker = [c \in Chats |-> NoMarkup]
  /\ OpsIdle
  /\ PgIdle
  /\ SigIdle
  /\ DispatchIdle

NextOps ==
  \/ \E resp \in Responses : CallPostTask(resp)
  \/ \E resp \in Responses : CallGetProject(resp)
  \/ \E args \in TaskInputs, up \in BOOLEAN : CallSaveTask(args, up)
  \/ \E c \in Chats, p \in {Phone1, Phone2}, up \in BOOLEAN :
       CallAddOrUpdateUser(c, p, up)

SpecOps == InitOps /\ [][NextOps]_vars

(* ========================= message dispatch =========================== *)
\* A message: its chat, its content type, and its text as the dispatcher's
\* command filter reads it: the first character (prefix) of the first word,
\* the rest of that word split at "@" into command and mention, and whether
\* more words follow.  NoText is the text of a message that has none.
NoText == [prefix |-> "", command |-> "", mention |-> "", args |-> FALSE]
BotUsername == "bot"
Texts ==
  [prefix : {"/", "x"},
   command : {"start", "START", "startx", "help"},
   mention : {"", "bot", "other"},
   args : BOOLEAN]
ContentTypes == {"text", "contact", "photo", "document", "sticker"}
MessageInputs ==
  {[chat |-> c, content_type |-> "text", text |-> t, caption |-> NoText] :
     c \in Chats, t \in Texts}
  \cup
  {[chat |-> c, content_type |-> k, text |-> NoText, caption |-> cap] :
     c \in Chats, k \in ContentTypes \ {"text"},
     cap \in {NoText, [prefix |-> "/", command |-> "start",
                       mention |-> "", args |-> FALSE]}}

\* str.lower() on the words above
Lower(w) == IF w = "START" THEN "start" ELSE w

\* the registration order with handle_task_input ahead of handle_text
Handlers_task_input_first ==
  << [name |-> "send_welcome", commands |-> {"start"},
      content_types |-> {"text"}],
     [name |-> "handle_phone_number", commands |-> {},
      content_types |-> {"contact"}],
     [name |-> "handle_task_input", commands |-> {},
      content_types |-> {"text"}],
     [name |-> "handle_text", commands |-> {},
      content_types |-> {"text"}] >>

\* The message handlers in the order the decorators register them.  A
\* handler registered without content_types gets the dispatcher's default,
\* text; the custom filter of handle_task_input (lambda message: True)
\* accepts every message and adds no condition.
Handlers ==
  << [name |-> "send_welcome", commands |-> {"start"},
      content_types |-> {"text"}],
     [name |-> "handle_phone_number", commands |-> {},
      content_types |-> {"contact"}],
     [name |-> "handle_text", commands |-> {},
      content_types |-> {"text"}],
     [name |-> "handle_task_input", commands |-> {},
      content_types |-> {"text"}] >>

\* the commands filter: the text (never the caption) starts with "/", names
\* one of the commands in any letter case, and mentions no other bot
CommandMatches(commands, msg) ==
  /\ msg.text.prefix = "/"
  /\ msg.text.mention = "" \/ Lower(msg.text.mention) = BotUsername
  /\ Lower(msg.text.command) \in commands

\* all filters of handler h accept msg
Accepts(h, msg) ==
  /\ msg.content_type \in h.content_types
  /\ h.commands # {} => CommandMatches(h.commands, msg)

\* the first registered handler whose filters accept msg gets it, alone
Dispatch(msg) ==
  LET hits == {i \in 1..Len(Handlers) : Accepts(Handlers[i], msg)}
  IN  IF hits = {} THEN "none"
      ELSE Handlers[CHOOSE i \in hits : \A j \in hits : i <= j].name

\* what the chat saw last before the message: nothing, the welcome, or the
\* prompt for the task name after a project was selected
PriorOutputs ==
  {NoOutput}
  \cup {Msg(c, "welcome") : c \in Chats}
  \cup {Shown(c, "ask_task_name", NoMarkup, 1, 0) : c \in Chats}

InitDispatch ==
  /\ users = {User1}
  /\ projects = ProjectTable(1, 0)
  /\ inv = EmptyBag
  /\ out \in PriorOutputs
  /\ picker = [c \in Chats |-> NoMarkup]
  /\ DispatchIdle
  /\ OpsIdle
  /\ PgIdle
  /\ SigIdle

\* the dispatcher receives msg and hands it to a handler
Deliver(msg) ==
  /\ delivered' = << msg >>
  /\ handledBy' = << Dispatch(msg) >>
  /\ UNCHANGED << botVars, pgVars, sigVars, opsVars >>

NextDispatch == \E msg \in MessageInputs : Deliver(msg)

SpecDispatch == InitDispatch /\ [][NextDispatch]_vars

(* ======================= properties: pagination ======================== *)
CeilDiv(n, d) == IF n % d = 0 THEN n \div d ELSE n \div d + 1
Min(a, b) == IF a <= b THEN a ELSE b
HasNav(markup, label) == \E i \in 1..Len(markup.nav) : markup.nav[i].label = label

\* C7: for every project count n and every valid page p (0 <= p < ceil(n/4))
\* the keyboard holds exactly the projects at positions [4p, 4p+4) of the
\* list, min(4, n - 4p) of them in list order, a previous button exactly when
\* p > 0 and a next button exactly when p < ceil(n/4) - 1; for n = 0 it holds
\* no project button and no navigation button.
C7_ValidPage ==
  pgMarkup # << >> =>
    LET n == Len(pgList)
        p == pgPage
        markup == pgMarkup[1]
        pages == CeilDiv(n, 4)
    IN /\ (0 <= p /\ p < pages) =>
            /\ Len(markup.buttons) = Min(4, n - 4 * p)
            /\ \A i \in 1..Len(markup.buttons) :
                 markup.buttons[i] = pgList[4 * p + i].ProjectId
            /\ HasNav(markup, "prev") <=> p > 0
            /\ HasNav(markup, "next") <=> p < pages - 1
       /\ n = 0 => (markup.buttons = << >> /\ markup.nav = << >>)

\* a middle page was built: a full page with both navigation buttons
C7_Witness ==
  /\ pgMarkup # << >>
  /\ pgPage = 1
  /\ Len(pgList) > 8
  /\ Len(pgMarkup[1].buttons) = 4
  /\ HasNav(pgMarkup[1], "prev")
  /\ HasNav(pgMarkup[1], "next")

(* ==================== properties: request signing ====================== *)
\* C10: the signed request is the query string
\* action=<op>&id_project=<id>&title=<t>&text=<d> followed by the hash of
\* query + secret, it is the same for the same inputs, and two input tuples
\* that differ in a field give different query strings and different hashes.
C10_Original ==
  sigOut # << >> =>
    /\ \A i \in 1..2 :
         /\ sigOut[i].query =
              << "action=", "post_task", "&id_project=" >>
                \o PyStr(sigArgs[i].project_id) \o << "&title=" >>
                \o sigArgs[i].task_name \o << "&text=" >>
                \o sigArgs[i].description
         /\ sigOut[i].hash = Md5Hex(sigOut[i].query \o API_KEY)
    /\ sigArgs[1] = sigArgs[2] => sigOut[1] = sigOut[2]
    /\ sigArgs[1] # sigArgs[2] =>
         /\ sigOut[1].query # sigOut[2].query
         /\ sigOut[1].hash # sigOut[2].hash

(* ================= properties: out-of-range page requests ============== *)
\* the keyboard that shows page q of the list prjs, per C7
PageKeyboard(prjs, q) ==
  LET n == Len(prjs)
      pages == CeilDiv(n, 4)
      shown == Min(4, n - 4 * q)
  IN [buttons |-> [i \in 1..shown |-> prjs[4 * q + i].ProjectId],
      nav |-> (IF q > 0 THEN << [label |-> "prev", page |-> q - 1] >>
               ELSE << >>)
              \o (IF q < pages - 1
                  THEN << [label |-> "next", page |-> q + 1] >> ELSE << >>)]

\* C8: for a non-empty project list and a requested page outside
\* 0..ceil(n/4)-1 the keyboard rendered is that of the nearest valid page
\* (page 0 for a negative request, the last page for a too large one).
C8_Original ==
  pgMarkup # << >> =>
    LET n == Len(pgList)
        pages == CeilDiv(n, 4)
    IN /\ (n > 0 /\ pgPage < 0) => pgMarkup[1] = PageKeyboard(pgList, 0)
       /\ (n > 0 /\ pgPage >= pages) =>
            pgMarkup[1] = PageKeyboard(pgList, pages - 1)

(* ======================== properties: handlers ========================= *)
\* the step ends or moves on the suspended invocation e
Resumes(e) == CopiesIn(e, inv') < CopiesIn(e, inv)

\* the step answers a text message of chat c
AnswersText(c) ==
  /\ out' # out
  /\ out'.chat = c
  /\ out'.len > 0

\* C4: once a project-select press has made the bot ask chat c for the task
\* name, the next text message of chat c is treated as the task name, not
\* as free text: it is not answered with the greeting or the exchange rate.
C4_Original ==
  [][ (out.kind = "ask_task_name" /\ AnswersText(out.chat)) =>
         out'.kind \notin {"greeting", "currency"} ]_vars

\* C5: a text sent in answer to the task-name prompt is rejected as too
\* long exactly when it has more than 45 characters.
C5_Original ==
  [][ (out.kind = "ask_task_name" /\ AnswersText(out.chat)) =>
         (out'.len >= 46 <=> out'.kind = "task_name_too_long") ]_vars

\* C6: in no reachable state are two handler invocations of the same chat
\* both suspended at an await.
C6_Original ==
  \A e, f \in Running :
    /\ CopiesIn(e, inv) = 1
    /\ e # f => e.chat # f.chat

\* the projects of the user whose phone number is user_phone, in table order
ProjectsOfPhone(user_phone) ==
  LET Mine(p) == \E u \in users : /\ u.UserPhoneNumber = user_phone
                                  /\ u.UserId = p.ProjectUserId
  IN SelectSeq(projects, Mine)

\* the users row of user_phone carries chat c
Bound(rows, user_phone, c) ==
  \E u \in rows : u.UserPhoneNumber = user_phone /\ u.TelegramChatId = c

\* the store failed although the rows to be written break no constraint
StoreError(e) ==
  /\ out' = Msg(e.chat, "save_failed")
  /\ UsersUnique(UsersAfterUpsert(e.user, e.chat, e.phone))

\* e is the only invocation in progress
Alone(e) == inv = SetToBag({e})

RespOk(resp) ==
  /\ resp.transport = "ok"
  /\ resp.status = 200
  /\ resp.json_type
  /\ resp.body.form = "object"
  /\ resp.body.status = << "ok" >>

\* C11: post_task reports success exactly when the answer is HTTP 200 with a
\* JSON body whose status field is "ok"; a transport failure, a non-200
\* status and a body with another status each end in a returned outcome
\* that is not the success outcome.
C11_Classification ==
  (opCall # << >> /\ opCall[1].op = "post_task") =>
    LET resp == opCall[1].resp
        ret == opCall[1].ret
        Failure == ret.kind = "return" /\ ret.value # TaskCreated
    IN /\ ret = Return(TaskCreated) <=> RespOk(resp)
       /\ resp.transport = "client_error" => Failure
       /\ (resp.transport = "ok" /\ resp.status # 200) => Failure
       /\ (resp.transport = "ok" /\ resp.status = 200 /\ resp.json_type
             /\ resp.body.form = "object" /\ resp.body.status # << "ok" >>)
            => Failure

\* a call of post_task met HTTP 200 with status "ok" and reported success
C11_Witness ==
  /\ opCall # << >>
  /\ opCall[1].op = "post_task"
  /\ RespOk(opCall[1].resp)
  /\ opCall[1].ret = Return(TaskCreated)

\* C12: a call of post_task or get_project that meets HTTP 200 with a body
\* that is malformed or not JSON returns a failure outcome; no exception
\* leaves the operation.
C12_Original ==
  (opCall # << >> /\ opCall[1].op \in {"post_task", "get_project"}
     /\ opCall[1].resp.transport = "ok" /\ opCall[1].resp.status = 200
     /\ (~opCall[1].resp.json_type \/ opCall[1].resp.body.form = "malformed"))
    => /\ opCall[1].ret.kind = "return"
       /\ opCall[1].ret.value # TaskCreated

\* the lookup succeeded: HTTP 200 with a JSON object that has user_to.name
LookupOk(resp) ==
  /\ resp.transport = "ok"
  /\ resp.status = 200
  /\ resp.json_type
  /\ resp.body.form = "object"
  /\ resp.body.user_to # << >>
  /\ ~resp.body.user_to[1].null
  /\ resp.body.user_to[1].name # << >>

\* no leader name (None)
NoLeader == << >>

\* C13: the leader name a call of get_project results in is the response's
\* user_to.name when the lookup succeeded and null in every other case.
C13_Original ==
  (opCall # << >> /\ opCall[1].op = "get_project") =>
    /\ opCall[1].ret.kind = "return"
    /\ IF LookupOk(opCall[1].resp)
       THEN opCall[1].ret.value = opCall[1].resp.body.user_to[1].name[1]
       ELSE opCall[1].ret.value = NoLeader

(* ====================== properties: store writes ======================= *)
\* the step is a call of one of the two writes
WriteCall ==
  /\ opCall' # << >>
  /\ opCall'[1].op \in {"add_or_update_user", "save_task_to_db"}

\* C14: a call of add_or_update_user or save_task_to_db whose write the
\* store does not take leaves the users and the tasks table as they were
\* and returns a failure outcome (False, the error text); a write it takes
\* returns the success outcome.
C14_Rollback ==
  [][ WriteCall =>
        LET call == opCall'[1]
            Success == IF call.op = "save_task_to_db"
                       THEN call.ret = Return(TaskSaved)
                       ELSE call.ret = Return(TRUE)
            Failure == IF call.op = "save_task_to_db"
                       THEN /\ call.ret.kind = "return"
                            /\ call.ret.value # TaskSaved
                       ELSE call.ret = Return(FALSE)
        IN /\ ~call.stored => (users' = users /\ tasks' = tasks /\ Failure)
           /\ call.stored => Success ]_vars

\* a save_task_to_db call failed when the tasks table already held a row,
\* and a users row is bound to a chat
C14_Witness ==
  /\ opCall # << >>
  /\ opCall[1].op = "save_task_to_db"
  /\ ~opCall[1].stored
  /\ Len(tasks) = 1
  /\ \E u \in users : u.TelegramChatId # Null

(* ======================= properties: user upsert ======================= *)
\* the step is the commit of the contact handler e, and it succeeds
UpsertSucceeds(e) ==
  /\ e.pc = "commit"
  /\ Resumes(e)
  /\ BagCardinality(inv') = BagCardinality(inv)

\* C15: there is at most one users row per phone number; a successful
\* submission of phone p from chat c leaves the row of p with session id c,
\* creating a row only if p had none; and a submission that repeats the
\* binding the table already holds leaves the table unchanged.
C15_Original ==
  [][ /\ \A u, v \in users' :
           u.UserPhoneNumber = v.UserPhoneNumber => u = v
      /\ \A e \in Running :
           UpsertSucceeds(e) =>
             /\ Bound(users', e.phone, e.chat)
             /\ Cardinality(users') > Cardinality(users) =>
                  ~\E u \in users : u.UserPhoneNumber = e.phone
             /\ Bound(users, e.phone, e.chat) => users' = users ]_vars

(* ================== properties: events outside a workflow ============== *)
\* chat c has started no workflow: no users row carries it and it has been
\* shown no picker
NoWorkflow(c) ==
  /\ \A u \in users : u.TelegramChatId # c
  /\ picker[c] = NoMarkup

\* C16: a text message of a chat that has started no workflow is answered
\* with the generic not-in-a-workflow fallback.
C16_Original ==
  [][ \A c \in Chats :
        (NoWorkflow(c) /\ AnswersText(c)) =>
           out'.kind = "not_in_workflow" ]_vars

(* ====================== properties: not-found cases ==================== *)
\* the step is a button press: process_callback answers it
PressStep ==
  /\ inv' = inv
  /\ out' # out
  /\ out'.kind \in {"alert_user_not_found", "alert_unknown_error",
                    "alert_project_not_found", "ask_task_name",
                    "choose_project"}

\* the projects table has a row with id pid
ProjectExists(pid) ==
  \E i \in 1..Len(projects) : projects[i].ProjectId = pid

\* chat c is the session id of some users row
ChatBound(c) == \E u \in users : u.TelegramChatId = c

IsStart(msg) ==
  /\ msg.content_type = "text"
  /\ msg.text.prefix = "/"
  /\ msg.text.command \in {"start", "START"}
  /\ msg.text.mention \in {"", BotUsername}

BoundElsewhere(c, user_phone) ==
  \E u \in users : u.TelegramChatId = c /\ u.UserPhoneNumber # user_phone

\* C19: a chat id is the session id of at most one users row; the upsert of
\* a contact sent by a chat that is bound to another phone fails with the
\* saving-failed answer and leaves the users table unchanged; and a
\* successful upsert of a phone that another chat was bound to leaves that
\* chat with no users row.
C19_Original ==
  [][ /\ \A u, v \in users' :
           (u.TelegramChatId # Null /\ u.TelegramChatId = v.TelegramChatId)
              => u = v
      /\ \A e \in Running :
           /\ (e.pc = "commit" /\ Resumes(e) /\ BoundElsewhere(e.chat, e.phone))
                => /\ users' = users
                   /\ out' = Msg(e.chat, "save_failed")
                   /\ BagCardinality(inv') < BagCardinality(inv)
           /\ UpsertSucceeds(e) =>
                \A u \in users :
                  (u.UserPhoneNumber = e.phone
                     /\ u.TelegramChatId \notin {Null, e.chat})
                    => ~ChatBound(u.TelegramChatId)' ]_vars

(* =================== properties: project ownership ===================== *)
\* the users row that chat c is the session id of owns project pid
OwnsProject(c, pid) ==
  \E u \in users :
    /\ u.TelegramChatId = c
    /\ \E i \in 1..Len(projects) : /\ projects[i].ProjectId = pid
                                   /\ projects[i].ProjectUserId = u.UserId

\* C20: a project-select press of chat c is confirmed, with the prompt for
\* the task name, only for a project owned by the user bound to chat c.
C20_Original ==
  [][ (PressStep /\ out'.kind = "ask_task_name") =>
         OwnsProject(out'.chat, out'.pid) ]_vars
====
